---- MODULE Spec2Model ----
(***************************************************************************)
(* State-machine model of the kernel core of criskell/osdev_rust:          *)
(*   - the linked-list heap allocator (kernel/src/allocator/linked_list.rs) *)
(*   - the cooperative executor       (kernel/src/task/executor.rs)        *)
(*   - the keyboard interrupt bridge  (kernel/src/task/keyboard.rs)        *)
(* SpecAlloc drives the allocator; Spec and SpecLive drive the executor    *)
(* together with the interrupt handlers; SpecSpawn drives a boot that      *)
(* spawns more tasks than the ready queue holds.                           *)
(***************************************************************************)
EXTENDS Integers, Sequences, FiniteSets, TLC

VARIABLES
    \* ---- allocator (linked_list.rs)
    free_list,      \* the chain head.next -> ... as a sequence of [addr, size]
    live,           \* allocations handed out and not yet freed: [addr, size, align]
    heap_inited,    \* init(heap_start, heap_size) has run
    alloc_panic,    \* an assert!/expect of the allocator has fired
    last,           \* the last allocator call: [op, size, align, ret]
    prev_op,        \* the kind of the allocator call before it
    scanned,        \* the free-list nodes find_region examined in the last alloc
    streak,         \* alloc-then-dealloc rounds of one layout made in a row
    \* ---- executor (executor.rs)
    tasks,          \* Executor::tasks: task id -> the state of the task's future
    task_queue,     \* Executor::task_queue, shared with every TaskWaker
    waker_cache,    \* Executor::waker_cache: the ids that have a cached Waker
    pc,             \* where the boot thread is inside Executor::run
    cur,            \* the id of the task being polled, 0 when none
    int_enabled,    \* the CPU's interrupt flag
    panic_msg,      \* "none", or the message of the panic that stopped the kernel
    \* ---- keyboard bridge (keyboard.rs)
    sq_init,        \* SCANCODE_QUEUE has been initialized
    scancode_queue, \* the contents of SCANCODE_QUEUE
    waker_cell,     \* WAKER: the id whose Waker is registered, 0 when empty
    waker_state,    \* WAKER's state word
    diag,           \* the warnings printed: [full, uninit] counts
    irq_frees,      \* last references to a TaskWaker dropped inside an interrupt
    \* ---- history
    next_event,     \* the number of the next scancode the keyboard delivers
    consumed,       \* the scancodes poll_next has returned, in order
    polls,          \* task id -> how often Task::poll was called
    enq,            \* task id -> how often spawn or a Waker pushed the id
    born,           \* task id -> the task as it was spawned
    wakes           \* how often a party outside the executor has invoked a Waker

alloc_vars == <<free_list, live, heap_inited, alloc_panic, last, prev_op, scanned, streak>>

exec_vars == <<tasks, task_queue, waker_cache, pc, cur, int_enabled, panic_msg>>

kbd_vars == <<sq_init, scancode_queue, waker_cell, waker_state, diag, irq_frees>>

hist_vars == <<next_event, consumed, polls, enq, born, wakes>>

vars == <<alloc_vars, exec_vars, kbd_vars, hist_vars>>

(***************************************************************************)
(* Bounds and program constants                                            *)
(***************************************************************************)
\* mem::size_of::<ListNode>() and mem::align_of::<ListNode>() on x86_64
NodeSize == 16
NodeAlign == 8

\* the heap is HeapUnits words of NodeAlign bytes
HeapUnits == 8
HeapSize == HeapUnits * NodeAlign
HeapStart == 4 * NodeSize

\* usize is modelled AddrBits wide
AddrBits == 9
UsizeMax == 2 ^ AddrBits - 1
IsizeMax == 2 ^ (AddrBits - 1) - 1

\* capacities of the two ArrayQueues, scaled down from 100
TaskQueueCap == 3
ScancodeCap == 2

\* tasks spawned, scancodes delivered and Wakers invoked from outside
MaxTasks == 2
MaxEvents == 3
MaxWakes == 2

\* alloc-then-dealloc rounds of one layout that are counted
MaxStreak == 3

TaskIds == 1..MaxTasks
Events == 1..MaxEvents

\* the ids of a boot that spawns one task more than the ready queue holds
SpawnIds == 1..(TaskQueueCap + 1)
Ids == TaskIds \cup SpawnIds

\* layouts the callers request
ReqSizes == {8, 24, 32}
ReqAligns == {4, 8, 16}

NULL == 0
Err == -1
LayoutErr == <<>>

NoCall == [op |-> "none", size |-> 0, align |-> 0, ret |-> NULL]

Max(a, b) == IF a >= b THEN a ELSE b

(***************************************************************************)
(* Allocator                                                               *)
(***************************************************************************)
\* super::align_up: the smallest multiple of align that is >= addr
align_up(addr, align) == ((addr + align - 1) \div align) * align

\* ListNode::start_addr / end_addr
start_addr(region) == region.addr
end_addr(region) == start_addr(region) + region.size

\* Layout::align_to(align_of::<ListNode>()).pad_to_align(), then the minimum
\* size; Err when the padded size is no valid Layout size
size_align_nomin(size, align) ==
    LET a == Max(align, NodeAlign)
        padded == align_up(size, a)
    IN  IF padded > IsizeMax THEN LayoutErr
        ELSE <<padded, a>>

size_align(size, align) ==
    LET a == Max(align, NodeAlign)
        padded == align_up(size, a)
    IN  IF padded > IsizeMax THEN LayoutErr
        ELSE <<Max(padded, NodeSize), a>>

\* alloc_from_region: the start of the allocation inside region, or Err
alloc_from_region_noend(region, size, align) ==
    LET alloc_start == align_up(start_addr(region), align)
        alloc_end == alloc_start + size
        excess_size == end_addr(region) - alloc_end
    IN  IF alloc_end > UsizeMax THEN Err
        ELSE IF excess_size > 0 /\ excess_size < NodeSize THEN Err
        ELSE alloc_start

alloc_from_region_unaligned(region, size, align) ==
    LET alloc_start == start_addr(region)
        alloc_end == alloc_start + size
        excess_size == end_addr(region) - alloc_end
    IN  IF alloc_end > UsizeMax THEN Err
        ELSE IF alloc_end > end_addr(region) THEN Err
        ELSE IF excess_size > 0 /\ excess_size < NodeSize THEN Err
        ELSE alloc_start

alloc_from_region_nosplit(region, size, align) ==
    LET alloc_start == align_up(start_addr(region), align)
        alloc_end == alloc_start + size
    IN  IF alloc_end > UsizeMax THEN Err
        ELSE IF alloc_end > end_addr(region) THEN Err
        ELSE alloc_start

alloc_from_region_noexact(region, size, align) ==
    LET alloc_start == align_up(start_addr(region), align)
        alloc_end == alloc_start + size
        excess_size == end_addr(region) - alloc_end
    IN  IF alloc_end > UsizeMax THEN Err
        ELSE IF alloc_end > end_addr(region) THEN Err
        ELSE IF excess_size < NodeSize THEN Err
        ELSE alloc_start

alloc_from_region_strict(region, size, align) ==
    LET alloc_start == align_up(start_addr(region), align)
        alloc_end == alloc_start + size
        excess_size == end_addr(region) - alloc_end
    IN  IF alloc_end > UsizeMax THEN Err
        ELSE IF alloc_end > end_addr(region) THEN Err
        ELSE IF excess_size > 0 /\ excess_size <= NodeSize THEN Err
        ELSE alloc_start

alloc_from_region_wraps(region, size, align) ==
    LET alloc_start == align_up(start_addr(region), align)
        alloc_end == (alloc_start + size) % (UsizeMax + 1)
        excess_size == end_addr(region) - alloc_end
    IN  IF alloc_end > end_addr(region) THEN Err
        ELSE IF excess_size > 0 /\ excess_size < NodeSize THEN Err
        ELSE alloc_start

alloc_from_region(region, size, align) ==
    LET alloc_start == align_up(start_addr(region), align)
        alloc_end == alloc_start + size
        excess_size == end_addr(region) - alloc_end
    IN  IF alloc_end > UsizeMax THEN Err
        ELSE IF alloc_end > end_addr(region) THEN Err
        ELSE IF excess_size > 0 /\ excess_size < NodeSize THEN Err
        ELSE alloc_start

\* find_region: the index of the first node of the list that
\* alloc_from_region accepts, 0 when there is none
find_region_last(list, size, align) ==
    LET ok == {i \in 1..Len(list) : alloc_from_region(list[i], size, align) # Err}
    IN  IF ok = {} THEN 0 ELSE CHOOSE i \in ok : \A j \in ok : i >= j

find_region(list, size, align) ==
    LET ok == {i \in 1..Len(list) : alloc_from_region(list[i], size, align) # Err}
    IN  IF ok = {} THEN 0 ELSE CHOOSE i \in ok : \A j \in ok : i <= j

\* the list after find_region has unlinked node i
unlink(list, i) == SubSeq(list, 1, i - 1) \o SubSeq(list, i + 1, Len(list))

\* the two assertions of add_free_region
add_free_region_ok(addr, size) ==
    /\ align_up(addr, NodeAlign) = addr
    /\ size >= NodeSize

\* add_free_region: a node of that size written at addr, linked at the front
add_free_region_back(list, addr, size) == list \o <<[addr |-> addr, size |-> size]>>

add_free_region(list, addr, size) == <<[addr |-> addr, size |-> size]>> \o list

\* LinkedListAllocator::init
init_at(heap_start, heap_size) ==
    /\ ~heap_inited
    /\ ~alloc_panic
    /\ IF add_free_region_ok(heap_start, heap_size)
       THEN /\ free_list' = add_free_region(free_list, heap_start, heap_size)
            /\ alloc_panic' = FALSE
       ELSE /\ free_list' = free_list
            /\ alloc_panic' = TRUE
    /\ heap_inited' = TRUE
    /\ UNCHANGED <<live, last, prev_op, scanned, streak>>

\* init as the kernel calls it, with the heap at HEAP_START
init == init_at(HeapStart, HeapSize)

\* init with a heap that ends NodeAlign bytes below the top of the address
\* space
HighStart == UsizeMax + 1 - HeapSize - NodeAlign
init_high == init_at(HighStart, HeapSize)

\* GlobalAlloc::alloc for one Layout
alloc_layout(size, align) ==
    LET sa == size_align(size, align)
        i == IF sa = LayoutErr THEN 0 ELSE find_region(free_list, sa[1], sa[2])
        null == [op |-> "alloc", size |-> size, align |-> align, ret |-> NULL]
    IN
    /\ streak' = IF last.op = "dealloc" /\ last.size = size /\ last.align = align
                 THEN streak ELSE 0
    /\ scanned' = IF sa = LayoutErr THEN 0
                  ELSE IF i = 0 THEN Len(free_list) ELSE i
    /\ IF sa = LayoutErr
       THEN /\ alloc_panic' = TRUE
            /\ last' = null
            /\ UNCHANGED <<free_list, live>>
       ELSE IF i = 0
       THEN /\ last' = null
            /\ UNCHANGED <<free_list, live, alloc_panic>>
       ELSE
       LET region == free_list[i]
           alloc_start == alloc_from_region(region, sa[1], sa[2])
           alloc_end == alloc_start + sa[1]
           excess_size == end_addr(region) - alloc_end
           rest == unlink(free_list, i)
       IN  IF alloc_end > UsizeMax
           THEN /\ alloc_panic' = TRUE
                /\ free_list' = rest
                /\ last' = null
                /\ UNCHANGED live
           ELSE IF excess_size > 0 /\ ~add_free_region_ok(alloc_end, excess_size)
           THEN /\ alloc_panic' = TRUE
                /\ free_list' = rest
                /\ last' = null
                /\ UNCHANGED live
           ELSE /\ free_list' = IF excess_size > 0
                                THEN add_free_region(rest, alloc_end, excess_size)
                                ELSE rest
                /\ live' = live \cup {[addr |-> alloc_start, size |-> size, align |-> align]}
                /\ last' = [op |-> "alloc", size |-> size, align |-> align, ret |-> alloc_start]
                /\ UNCHANGED alloc_panic

alloc ==
    /\ ~alloc_panic
    /\ \E size \in ReqSizes, align \in ReqAligns : alloc_layout(size, align)
    /\ prev_op' = last.op
    /\ UNCHANGED heap_inited

\* GlobalAlloc::dealloc of a live allocation with the layout it was made with
dealloc_block_coalesce(a) ==
    LET sa == size_align(a.size, a.align)
        right == {i \in 1..Len(free_list) : free_list[i].addr = a.addr + sa[1]}
    IN
    /\ last' = [op |-> "dealloc", size |-> a.size, align |-> a.align, ret |-> a.addr]
    /\ live' = live \ {a}
    /\ scanned' = 0
    /\ streak' = 0
    /\ UNCHANGED alloc_panic
    /\ IF right = {}
       THEN free_list' = add_free_region(free_list, a.addr, sa[1])
       ELSE LET i == CHOOSE x \in right : TRUE
            IN  free_list' = add_free_region(unlink(free_list, i), a.addr,
                                             sa[1] + free_list[i].size)

dealloc_block_raw_size(a) ==
    /\ last' = [op |-> "dealloc", size |-> a.size, align |-> a.align, ret |-> a.addr]
    /\ live' = live \ {a}
    /\ scanned' = 0
    /\ streak' = 0
    /\ IF add_free_region_ok(a.addr, a.size)
       THEN /\ free_list' = add_free_region(free_list, a.addr, a.size)
            /\ UNCHANGED alloc_panic
       ELSE /\ alloc_panic' = TRUE
            /\ UNCHANGED free_list

dealloc_block(a) ==
    LET sa == size_align(a.size, a.align) IN
    /\ last' = [op |-> "dealloc", size |-> a.size, align |-> a.align, ret |-> a.addr]
    /\ live' = live \ {a}
    /\ scanned' = 0
    /\ streak' = IF last.op = "alloc" /\ last.ret = a.addr
                    /\ last.size = a.size /\ last.align = a.align
                 THEN (IF streak < MaxStreak THEN streak + 1 ELSE streak) ELSE 0
    /\ IF sa # LayoutErr /\ add_free_region_ok(a.addr, sa[1])
       THEN /\ free_list' = add_free_region(free_list, a.addr, sa[1])
            /\ UNCHANGED alloc_panic
       ELSE /\ alloc_panic' = TRUE
            /\ UNCHANGED free_list

dealloc ==
    /\ ~alloc_panic
    /\ \E a \in live : dealloc_block(a)
    /\ prev_op' = last.op
    /\ UNCHANGED heap_inited

InitAlloc ==
    /\ free_list = <<>>
    /\ live = {}
    /\ heap_inited = FALSE
    /\ alloc_panic = FALSE
    /\ last = NoCall
    /\ prev_op = "none"
    /\ scanned = 0
    /\ streak = 0

\* Executor::new, and the statics of keyboard.rs; ids are the task ids the
\* history is kept for
InitExecFor(ids) ==
    /\ tasks = <<>>
    /\ task_queue = <<>>
    /\ waker_cache = {}
    /\ pc = "boot"
    /\ cur = 0
    /\ int_enabled = TRUE
    /\ panic_msg = "none"
    /\ sq_init = FALSE
    /\ scancode_queue = <<>>
    /\ waker_cell = 0
    /\ waker_state = "WAITING"
    /\ diag = [full |-> 0, uninit |-> 0]
    /\ irq_frees = 0
    /\ next_event = 1
    /\ consumed = <<>>
    /\ polls = [id \in ids |-> 0]
    /\ enq = [id \in ids |-> 0]
    /\ born = <<>>
    /\ wakes = 0

InitExec == InitExecFor(TaskIds)

Init == InitAlloc /\ InitExec

InitSpawn == InitAlloc /\ InitExecFor(Ids)

NextAlloc ==
    \/ init /\ UNCHANGED <<exec_vars, kbd_vars, hist_vars>>
    \/ alloc /\ UNCHANGED <<exec_vars, kbd_vars, hist_vars>>
    \/ dealloc /\ UNCHANGED <<exec_vars, kbd_vars, hist_vars>>

SpecAlloc == Init /\ [][NextAlloc]_vars

\* the allocator on the heap at the top of the address space
NextHigh ==
    \/ init_high /\ UNCHANGED <<exec_vars, kbd_vars, hist_vars>>
    \/ alloc /\ UNCHANGED <<exec_vars, kbd_vars, hist_vars>>
    \/ dealloc /\ UNCHANGED <<exec_vars, kbd_vars, hist_vars>>

SpecHigh == Init /\ [][NextHigh]_vars

(***************************************************************************)
(* Allocator claims                                                        *)
(***************************************************************************)
\* the byte range of a live allocation: its address and its adjusted size
adjusted_size(a) == Max(align_up(a.size, Max(a.align, NodeAlign)), NodeSize)
Disjoint(a1, s1, a2, s2) == a1 + s1 <= a2 \/ a2 + s2 <= a1
Nodes == {free_list[i] : i \in 1..Len(free_list)}

\* C1: the byte ranges of any two live allocations are disjoint, every live
\* range lies inside the heap, and no live range overlaps a free-list node.
C1_LiveRangesDisjoint ==
    /\ \A a \in live : \A b \in live :
          a # b => Disjoint(a.addr, adjusted_size(a), b.addr, adjusted_size(b))
    /\ \A a \in live :
          /\ HeapStart <= a.addr
          /\ a.addr + adjusted_size(a) <= HeapStart + HeapSize
    /\ \A a \in live : \A n \in Nodes :
          Disjoint(a.addr, adjusted_size(a), n.addr, n.size)

\* two allocations are live next to free nodes, after a block has been freed
C1_Witness ==
    /\ Cardinality(live) >= 2
    /\ Len(free_list) >= 2
    /\ last.op = "alloc" /\ last.ret # NULL
    /\ prev_op = "dealloc"

\* C4: every non-null address alloc returns is a multiple of the alignment
\* the caller requested.
C4_ReturnedAddressAligned ==
    (last.op = "alloc" /\ last.ret # NULL) => last.ret % last.align = 0

\* a 16-byte aligned allocation whose node started 8 bytes earlier: align_up
\* moved the start, and the bytes before it are neither live nor free
C4_Witness ==
    /\ last.op = "alloc" /\ last.ret # NULL /\ last.align = 2 * NodeAlign
    /\ last.ret - NodeAlign >= HeapStart
    /\ \A a \in live : Disjoint(a.addr, adjusted_size(a), last.ret - NodeAlign, NodeAlign)
    /\ \A n \in Nodes : Disjoint(n.addr, n.size, last.ret - NodeAlign, NodeAlign)

\* C5 as stated: after a block has been freed, the next request of any size
\* up to the freed size with a compatible alignment succeeds.
C5_ReuseAnySmallerSize ==
    [][(last.op = "dealloc" /\ last'.op = "alloc" /\ ~alloc_panic'
        /\ last'.size <= last.size /\ last'.align <= last.align)
       => last'.ret # NULL]_vars

\* C5 amended: the next request succeeds when its adjusted size equals the
\* adjusted size of the freed block or leaves at least one node footprint.
C5_ReuseExactOrSplit ==
    [][(last.op = "dealloc" /\ last'.op = "alloc" /\ ~alloc_panic'
        /\ last'.align <= last.align
        /\ \/ adjusted_size(last') = adjusted_size(last)
           \/ adjusted_size(last') + NodeSize <= adjusted_size(last))
       => last'.ret # NULL]_vars

\* the freed block was the only free region and the request took all of it
C5_Witness ==
    /\ prev_op = "dealloc"
    /\ last.op = "alloc" /\ last.ret # NULL
    /\ free_list = <<>>
    /\ Cardinality(live) >= 2

\* the carve test of one node, written from the addresses alone
Fits(n, size, align) ==
    \E s \in n.addr..(n.addr + n.size) :
        /\ s % align = 0
        /\ \A t \in n.addr..(s - 1) : t % align # 0
        /\ s + size <= n.addr + n.size
        /\ (n.addr + n.size - (s + size) = 0 \/ n.addr + n.size - (s + size) >= NodeSize)

LiveBytes(S) ==
    LET RECURSIVE sum(_)
        sum(T) == IF T = {} THEN 0
                  ELSE LET a == CHOOSE x \in T : TRUE
                       IN  adjusted_size(a) + sum(T \ {a})
    IN  sum(S)

\* C6: when no free-list node can serve a request, alloc returns null, does
\* not panic and leaves the free list and the live allocations as they were;
\* the live allocations never add up to more than the heap.
C6_ExhaustionReturnsNull ==
    /\ [](LiveBytes(live) <= HeapSize)
    /\ [][(last'.op = "alloc" /\ last' # last
           /\ \A n \in Nodes :
                 ~Fits(n, adjusted_size(last'), Max(last'.align, NodeAlign)))
          => (/\ last'.ret = NULL
              /\ ~alloc_panic'
              /\ free_list' = free_list
              /\ live' = live)]_vars

\* a request is refused while free nodes and live allocations exist
C6_Witness ==
    /\ last.op = "alloc" /\ last.ret = NULL
    /\ heap_inited /\ ~alloc_panic
    /\ free_list # <<>>
    /\ live # {}

\* the carve of a request out of node n, from the addresses alone: the
\* first address of n that is a multiple of align, and what is left behind
CarveStart(n, align) == CHOOSE s \in n.addr..(n.addr + align - 1) : s % align = 0
Overruns(n, size, align) == CarveStart(n, align) + size > n.addr + n.size
Leftover(n, size, align) == n.addr + n.size - (CarveStart(n, align) + size)
Rejected(n, size, align) ==
    \/ Overruns(n, size, align)
    \/ Leftover(n, size, align) > 0 /\ Leftover(n, size, align) < NodeSize
Accepted(n, size, align) ==
    /\ ~Overruns(n, size, align)
    /\ Leftover(n, size, align) = 0 \/ Leftover(n, size, align) >= NodeSize

FreeBytes(list) ==
    LET RECURSIVE sum(_)
        sum(i) == IF i = 0 THEN 0 ELSE list[i].size + sum(i - 1)
    IN  sum(Len(list))

\* one call of alloc, one call of dealloc
AllocStep == last'.op = "alloc" /\ heap_inited' = heap_inited
DeallocStep == last'.op = "dealloc" /\ live' # live

SameLayout(c1, c2) == c1.size = c2.size /\ c1.align = c2.align

\* C17: an alloc that follows the dealloc of a block with the same layout is
\* served from that block: it returns the freed address, takes the node just
\* freed off the front of the free list and no other byte; freeing it again
\* puts the same node back, so the free bytes after one round are the free
\* bytes after the round before, however many rounds are made.
C17_AllocFreeRounds ==
    /\ [][(AllocStep /\ last.op = "dealloc" /\ SameLayout(last', last))
          => (/\ ~alloc_panic'
              /\ last'.ret = last.ret
              /\ last'.ret # NULL
              /\ free_list = <<[addr |-> last.ret, size |-> adjusted_size(last)]>>
                                \o free_list'
              /\ FreeBytes(free_list') = FreeBytes(free_list) - adjusted_size(last))]_vars
    /\ [][(DeallocStep /\ last.op = "alloc" /\ SameLayout(last', last)
           /\ last'.ret = last.ret)
          => (/\ ~alloc_panic'
              /\ FreeBytes(free_list') = FreeBytes(free_list) + adjusted_size(last)
              /\ Head(free_list') = [addr |-> last.ret, size |-> adjusted_size(last)])]_vars
    /\ []((streak >= 1 /\ last.op = "dealloc")
             => Head(free_list) = [addr |-> last.ret, size |-> adjusted_size(last)])
    /\ []((streak >= 1 /\ last.op = "alloc" /\ prev_op = "dealloc")
             => last.ret # NULL)

\* the same layout was allocated and freed MaxStreak times in a row, with
\* other blocks live and other nodes free
C17_Witness ==
    /\ streak = MaxStreak
    /\ last.op = "dealloc"
    /\ live # {}
    /\ Len(free_list) >= 2

\* C18: in every call of alloc each node that the scan passes over fails the
\* carve test (the aligned request overruns the node, or leaves more than
\* zero and less than NodeSize bytes) and the node that serves the request
\* passes it (it leaves zero or at least NodeSize bytes); a request that
\* returns null found no node that passes; alloc does not panic.
C18_CarveTest ==
    [][AllocStep
       => LET size == adjusted_size(last')
              align == Max(last'.align, NodeAlign)
          IN  /\ ~alloc_panic'
              /\ IF last'.ret = NULL
                 THEN \A n \in Nodes : Rejected(n, size, align)
                 ELSE \E i \in 1..Len(free_list) :
                         /\ CarveStart(free_list[i], align) = last'.ret
                         /\ Accepted(free_list[i], size, align)
                         /\ \A j \in 1..(i - 1) : Rejected(free_list[j], size, align)
                         /\ \A j \in 1..(i - 1) : ~Accepted(free_list[j], size, align)]_vars

\* the scan passed over a node that would have left less than NodeSize bytes
\* and then found a node in which the aligned request leaves nothing: the
\* call examined every node, and the nodes it passed over are the free list
C18_Witness ==
    /\ last.op = "alloc" /\ last.ret # NULL
    /\ scanned >= 2
    /\ Len(free_list) = scanned - 1
    /\ \A n \in Nodes : Rejected(n, adjusted_size(last), Max(last.align, NodeAlign))
    /\ \E n \in Nodes :
          LET lo == Leftover(n, adjusted_size(last), Max(last.align, NodeAlign))
          IN  lo > 0 /\ lo < NodeSize

\* C19: alloc serves a request from the first node, in free-list order, that
\* passes the carve test; the free list afterwards is the leftover behind
\* the allocation (when it is not zero) followed by all other nodes in the
\* order they had.
C19_FirstFit ==
    [][(AllocStep /\ last'.ret # NULL)
       => LET size == adjusted_size(last')
              align == Max(last'.align, NodeAlign)
          IN  \E i \in 1..Len(free_list) :
                 LET n == free_list[i]
                     lo == n.addr + n.size - (last'.ret + size)
                 IN  /\ n.addr <= last'.ret
                     /\ last'.ret + size <= n.addr + n.size
                     /\ \A j \in 1..(i - 1) : ~Accepted(free_list[j], size, align)
                     /\ free_list' =
                           (IF lo > 0
                            THEN <<[addr |-> last'.ret + size, size |-> lo]>>
                            ELSE <<>>)
                           \o SubSeq(free_list, 1, i - 1)
                           \o SubSeq(free_list, i + 1, Len(free_list))]_vars

\* the request was carved out of a larger node, whose leftover is the new
\* head of the free list, although a node behind it fits the request exactly
C19_Witness ==
    /\ last.op = "alloc" /\ last.ret # NULL
    /\ free_list # <<>>
    /\ Head(free_list).addr = last.ret + adjusted_size(last)
    /\ \E k \in 2..Len(free_list) :
          /\ Accepted(free_list[k], adjusted_size(last), Max(last.align, NodeAlign))
          /\ Leftover(free_list[k], adjusted_size(last), Max(last.align, NodeAlign)) = 0

\* C20: dealloc removes the block from the live allocations and puts one
\* node, at the freed address and of the adjusted size of its layout, in
\* front of the unchanged free list; no request is served from bytes of two
\* adjacent free nodes that are both too small for it.
C20_FreePushesFrontNoMerge ==
    /\ [][DeallocStep
          => (/\ ~alloc_panic'
              /\ [addr |-> last'.ret, size |-> last'.size, align |-> last'.align] \in live
              /\ live' = live \ {[addr |-> last'.ret, size |-> last'.size,
                                  align |-> last'.align]}
              /\ free_list' = <<[addr |-> last'.ret, size |-> adjusted_size(last')]>>
                                 \o free_list)]_vars
    /\ [][AllocStep
          => \A n1 \in Nodes : \A n2 \in Nodes :
                (/\ n1.addr + n1.size = n2.addr
                 /\ adjusted_size(last') > n1.size
                 /\ adjusted_size(last') > n2.size)
                => ~(n1.addr <= last'.ret /\ last'.ret < n2.addr + n2.size)]_vars

\* two adjacent blocks were freed, each smaller than the request and large
\* enough together, and the request was refused
C20_Witness ==
    /\ last.op = "alloc" /\ last.ret = NULL
    /\ prev_op = "dealloc"
    /\ live # {}
    /\ \E n1 \in Nodes : \E n2 \in Nodes :
          /\ n1.addr + n1.size = n2.addr
          /\ adjusted_size(last) > n1.size
          /\ adjusted_size(last) > n2.size
          /\ adjusted_size(last) <= n1.size + n2.size

\* the aligned start of the request in node n plus its size is past the
\* largest address
Wraps(n, size, align) == CarveStart(n, align) + size > UsizeMax

\* the nodes the scan of the last alloc call passed over: the free list
\* before the call up to the node that served it
PassedOver(before) ==
    {before[j] : j \in 1..(IF last'.ret = NULL THEN scanned' ELSE scanned' - 1)}

\* C21 as stated: when the aligned start plus the adjusted size wraps for a
\* node that alloc examines, the allocator panics.
C21_OverflowFatal ==
    [][(AllocStep /\ \E n \in PassedOver(free_list) :
                         Wraps(n, adjusted_size(last'), Max(last'.align, NodeAlign)))
       => alloc_panic']_vars

\* C21 amended: such a node is passed over like a node that is too small:
\* it stays in the free list, the scan goes on, the request is served by a
\* later node that passes the carve test or returns null, and the allocator
\* does not panic.
C21_OverflowSkipsNode ==
    [][AllocStep
       => \A n \in PassedOver(free_list) :
             Wraps(n, adjusted_size(last'), Max(last'.align, NodeAlign))
             => (/\ ~alloc_panic'
                 /\ n \in {free_list'[i] : i \in 1..Len(free_list')}
                 /\ ~(n.addr <= last'.ret /\ last'.ret < n.addr + n.size)
                 /\ \/ last'.ret = NULL
                    \/ \E m \in Nodes :
                          /\ m # n
                          /\ CarveStart(m, Max(last'.align, NodeAlign)) = last'.ret
                          /\ Accepted(m, adjusted_size(last'),
                                      Max(last'.align, NodeAlign)))]_vars

\* the first node of the free list lies so high that the request wraps in
\* it; the scan passed it over and served the request from the node behind
C21_Witness ==
    /\ last.op = "alloc" /\ last.ret # NULL
    /\ scanned = 2
    /\ ~alloc_panic
    /\ free_list # <<>>
    /\ Wraps(free_list[Len(free_list)], adjusted_size(last), Max(last.align, NodeAlign))
    /\ Len(free_list) <= 2
    /\ Len(free_list) = 2 => Head(free_list).addr = last.ret + adjusted_size(last)


(***************************************************************************)
Range(q) == {q[i] : i \in 1..Len(q)}
Occurrences(q, id) == Cardinality({i \in 1..Len(q) : q[i] = id})
Remove(f, id) == [x \in DOMAIN f \ {id} |-> f[x]]
Put(f, id, v) == [x \in DOMAIN f \cup {id} |-> IF x = id THEN v ELSE f[x]]

Running == panic_msg = "none"

\* TaskWaker::wake_task: push the id, panic when the queue is full
wake_task_drops(id) ==
    IF Len(task_queue) < TaskQueueCap
    THEN /\ task_queue' = Append(task_queue, id)
         /\ enq' = [enq EXCEPT ![id] = @ + 1]
         /\ panic_msg' = panic_msg
    ELSE UNCHANGED <<task_queue, enq, panic_msg>>

wake_task_front(id) ==
    IF Len(task_queue) < TaskQueueCap
    THEN /\ task_queue' = <<id>> \o task_queue
         /\ enq' = [enq EXCEPT ![id] = @ + 1]
         /\ panic_msg' = panic_msg
    ELSE /\ panic_msg' = "task_queue full"
         /\ UNCHANGED <<task_queue, enq>>

wake_task(id) ==
    IF Len(task_queue) < TaskQueueCap
    THEN /\ task_queue' = Append(task_queue, id)
         /\ enq' = [enq EXCEPT ![id] = @ + 1]
         /\ panic_msg' = panic_msg
    ELSE /\ panic_msg' = "task_queue full"
         /\ UNCHANGED <<task_queue, enq>>

\* Executor::spawn, called before Executor::run borrows the executor
spawn_allows_duplicate(id, kind, pend) ==
    /\ Running
    /\ pc = "boot"
    /\ tasks' = Put(tasks, id, [kind |-> kind, pend |-> pend, started |-> FALSE])
    /\ born' = Put(born, id, [kind |-> kind, pend |-> pend])
    /\ IF Len(task_queue) < TaskQueueCap
       THEN /\ task_queue' = Append(task_queue, id)
            /\ enq' = [enq EXCEPT ![id] = @ + 1]
            /\ UNCHANGED panic_msg
       ELSE /\ panic_msg' = "queue full"
            /\ UNCHANGED <<task_queue, enq>>
    /\ UNCHANGED <<waker_cache, pc, cur, int_enabled>>
    /\ UNCHANGED <<kbd_vars, next_event, consumed, polls, wakes>>
    /\ UNCHANGED alloc_vars

spawn(id, kind, pend) ==
    /\ Running
    /\ pc = "boot"
    /\ tasks' = Put(tasks, id, [kind |-> kind, pend |-> pend, started |-> FALSE])
    /\ born' = Put(born, id, [kind |-> kind, pend |-> pend])
    /\ IF id \in DOMAIN tasks
       THEN /\ panic_msg' = "task with same ID already in tasks"
            /\ UNCHANGED <<task_queue, enq>>
       ELSE IF Len(task_queue) < TaskQueueCap
       THEN /\ task_queue' = Append(task_queue, id)
            /\ enq' = [enq EXCEPT ![id] = @ + 1]
            /\ UNCHANGED panic_msg
       ELSE /\ panic_msg' = "queue full"
            /\ UNCHANGED <<task_queue, enq>>
    /\ UNCHANGED <<waker_cache, pc, cur, int_enabled>>
    /\ UNCHANGED <<kbd_vars, next_event, consumed, polls, wakes>>
    /\ UNCHANGED alloc_vars

\* Executor::run is entered: the first call of run_ready_tasks
run ==
    /\ Running
    /\ pc = "boot"
    /\ pc' = "sweep"
    /\ UNCHANGED <<tasks, task_queue, waker_cache, cur, int_enabled, panic_msg>>
    /\ UNCHANGED <<kbd_vars, hist_vars, alloc_vars>>

\* run_ready_tasks: task_queue.pop() returns None, the sweep ends
sweep_end ==
    /\ Running
    /\ pc = "sweep"
    /\ task_queue = <<>>
    /\ pc' = "idle_disable"
    /\ UNCHANGED <<tasks, task_queue, waker_cache, cur, int_enabled, panic_msg>>
    /\ UNCHANGED <<kbd_vars, hist_vars, alloc_vars>>

\* run_ready_tasks: the popped id is not in the task table
skip_stale_panics(id) ==
    /\ panic_msg' = "no such task"
    /\ UNCHANGED <<tasks, waker_cache, cur, pc>>

skip_stale_caches(id) ==
    /\ waker_cache' = waker_cache \cup {id}
    /\ UNCHANGED <<tasks, cur, pc, panic_msg>>

skip_stale(id) ==
    /\ UNCHANGED <<tasks, waker_cache, cur, pc, panic_msg>>

sweep_stale ==
    /\ Running
    /\ pc = "sweep"
    /\ task_queue # <<>>
    /\ Head(task_queue) \notin DOMAIN tasks
    /\ task_queue' = Tail(task_queue)
    /\ skip_stale(Head(task_queue))
    /\ UNCHANGED int_enabled
    /\ UNCHANGED <<kbd_vars, next_event, consumed, polls, enq, born, wakes>>
    /\ UNCHANGED alloc_vars

\* the two arms of match task.poll(&mut context), for a task that is no
\* keyboard task: Ready removes the task and its Waker, Pending does nothing
poll_ready_keeps_waker(id) ==
    /\ tasks' = Remove(tasks, id)
    /\ waker_cache' = waker_cache \cup {id}
    /\ task_queue' = Tail(task_queue)

poll_ready(id) ==
    /\ tasks' = Remove(tasks, id)
    /\ waker_cache' = waker_cache \ {id}
    /\ task_queue' = Tail(task_queue)

poll_pending_requeues(id) ==
    /\ tasks' = [tasks EXCEPT ![id].pend = @ - 1]
    /\ waker_cache' = waker_cache \cup {id}
    /\ task_queue' = Append(Tail(task_queue), id)

poll_pending(id) ==
    /\ tasks' = [tasks EXCEPT ![id].pend = @ - 1]
    /\ waker_cache' = waker_cache \cup {id}
    /\ task_queue' = Tail(task_queue)

\* run_ready_tasks: one iteration for a task that is no keyboard task: pop,
\* look the task up, get or make its Waker, poll, match on the result
sweep_poll ==
    /\ Running
    /\ pc = "sweep"
    /\ task_queue # <<>>
    /\ Head(task_queue) \in DOMAIN tasks
    /\ tasks[Head(task_queue)].kind = "gen"
    /\ LET id == Head(task_queue) IN
       /\ polls' = [polls EXCEPT ![id] = @ + 1]
       /\ IF tasks[id].pend = 0 THEN poll_ready(id) ELSE poll_pending(id)
    /\ UNCHANGED <<pc, cur, int_enabled, panic_msg>>
    /\ UNCHANGED <<kbd_vars, next_event, consumed, enq, born, wakes>>
    /\ UNCHANGED alloc_vars

\* run_ready_tasks: the same iteration for the keyboard task, up to the call
\* of its poll; print_keypresses constructs the ScancodeStream on its first
\* poll (ScancodeStream::new: try_init_once(..).expect(..))
sweep_poll_keyboard_uncached ==
    /\ Running
    /\ pc = "sweep"
    /\ task_queue # <<>>
    /\ Head(task_queue) \in DOMAIN tasks
    /\ tasks[Head(task_queue)].kind = "kb"
    /\ LET id == Head(task_queue) IN
       /\ task_queue' = Tail(task_queue)
       /\ polls' = [polls EXCEPT ![id] = @ + 1]
       /\ waker_cache' = waker_cache
       /\ cur' = id
       /\ tasks' = [tasks EXCEPT ![id].started = TRUE]
       /\ IF tasks[id].started
          THEN /\ pc' = "kb_pop1"
               /\ UNCHANGED <<sq_init, panic_msg>>
          ELSE IF sq_init
          THEN /\ panic_msg' = "ScancodeStream::new should only be called once"
               /\ UNCHANGED <<sq_init, pc>>
          ELSE /\ sq_init' = TRUE
               /\ pc' = "kb_pop1"
               /\ UNCHANGED panic_msg
    /\ UNCHANGED int_enabled
    /\ UNCHANGED <<scancode_queue, waker_cell, waker_state, diag, irq_frees>>
    /\ UNCHANGED <<next_event, consumed, enq, born, wakes>>
    /\ UNCHANGED alloc_vars

sweep_poll_keyboard_reinit ==
    /\ Running
    /\ pc = "sweep"
    /\ task_queue # <<>>
    /\ Head(task_queue) \in DOMAIN tasks
    /\ tasks[Head(task_queue)].kind = "kb"
    /\ LET id == Head(task_queue) IN
       /\ task_queue' = Tail(task_queue)
       /\ polls' = [polls EXCEPT ![id] = @ + 1]
       /\ waker_cache' = waker_cache \cup {id}
       /\ cur' = id
       /\ tasks' = [tasks EXCEPT ![id].started = TRUE]
       /\ IF tasks[id].started
          THEN /\ pc' = "kb_pop1"
               /\ UNCHANGED <<sq_init, panic_msg, scancode_queue>>
          ELSE /\ sq_init' = TRUE
               /\ scancode_queue' = <<>>
               /\ pc' = "kb_pop1"
               /\ UNCHANGED panic_msg
    /\ UNCHANGED int_enabled
    /\ UNCHANGED <<waker_cell, waker_state, diag, irq_frees>>
    /\ UNCHANGED <<next_event, consumed, enq, born, wakes>>
    /\ UNCHANGED alloc_vars

sweep_poll_keyboard ==
    /\ Running
    /\ pc = "sweep"
    /\ task_queue # <<>>
    /\ Head(task_queue) \in DOMAIN tasks
    /\ tasks[Head(task_queue)].kind = "kb"
    /\ LET id == Head(task_queue) IN
       /\ task_queue' = Tail(task_queue)
       /\ polls' = [polls EXCEPT ![id] = @ + 1]
       /\ waker_cache' = waker_cache \cup {id}
       /\ cur' = id
       /\ tasks' = [tasks EXCEPT ![id].started = TRUE]
       /\ IF tasks[id].started
          THEN /\ pc' = "kb_pop1"
               /\ UNCHANGED <<sq_init, panic_msg>>
          ELSE IF sq_init
          THEN /\ panic_msg' = "ScancodeStream::new should only be called once"
               /\ UNCHANGED <<sq_init, pc>>
          ELSE /\ sq_init' = TRUE
               /\ pc' = "kb_pop1"
               /\ UNCHANGED panic_msg
    /\ UNCHANGED int_enabled
    /\ UNCHANGED <<scancode_queue, waker_cell, waker_state, diag, irq_frees>>
    /\ UNCHANGED <<next_event, consumed, enq, born, wakes>>
    /\ UNCHANGED alloc_vars

\* poll_next: the fast path, queue.pop() before WAKER is touched; a scancode
\* goes to print_keypresses, whose loop calls poll_next again
poll_next_fast ==
    /\ Running
    /\ pc = "kb_pop1"
    /\ IF ~sq_init
       THEN /\ panic_msg' = "scancode queue not initialized"
            /\ UNCHANGED <<pc, scancode_queue, consumed>>
       ELSE IF scancode_queue # <<>>
       THEN /\ scancode_queue' = Tail(scancode_queue)
            /\ consumed' = Append(consumed, Head(scancode_queue))
            /\ UNCHANGED <<pc, panic_msg>>
       ELSE /\ pc' = "kb_register"
            /\ UNCHANGED <<scancode_queue, consumed, panic_msg>>
    /\ UNCHANGED <<tasks, task_queue, waker_cache, cur, int_enabled>>
    /\ UNCHANGED <<sq_init, waker_cell, waker_state, diag, irq_frees>>
    /\ UNCHANGED <<next_event, polls, enq, born, wakes>>
    /\ UNCHANGED alloc_vars

\* WAKER.register(&ctx.waker()), first half: AtomicWaker locks its cell
\* (WAITING -> REGISTERING) and stores a clone of the Waker
register_begin ==
    /\ Running
    /\ pc = "kb_register"
    /\ waker_state' = "REGISTERING"
    /\ waker_cell' = cur
    /\ pc' = "kb_registered"
    /\ UNCHANGED <<tasks, task_queue, waker_cache, cur, int_enabled, panic_msg>>
    /\ UNCHANGED <<sq_init, scancode_queue, diag, irq_frees>>
    /\ UNCHANGED <<hist_vars, alloc_vars>>

\* WAKER.register, second half: the cell is unlocked; when a wake() came in
\* between, register takes the Waker back out and invokes it itself
register_end ==
    /\ Running
    /\ pc = "kb_registered"
    /\ waker_state' = "WAITING"
    /\ IF waker_state = "REGISTERING"
       THEN UNCHANGED <<waker_cell, task_queue, enq, panic_msg>>
       ELSE /\ waker_cell' = 0
            /\ wake_task(waker_cell)
    /\ pc' = "kb_pop2"
    /\ UNCHANGED <<tasks, waker_cache, cur, int_enabled>>
    /\ UNCHANGED <<sq_init, scancode_queue, diag, irq_frees>>
    /\ UNCHANGED <<next_event, consumed, polls, born, wakes>>
    /\ UNCHANGED alloc_vars

\* poll_next: the second queue.pop(), after the registration
poll_next_recheck_skipped(q) == TRUE

poll_next_recheck(q) == q = <<>>

poll_next_slow_peek ==
    /\ Running
    /\ pc = "kb_pop2"
    /\ IF poll_next_recheck(scancode_queue)
       THEN /\ pc' = "sweep"
            /\ cur' = 0
            /\ UNCHANGED <<scancode_queue, consumed>>
       ELSE /\ scancode_queue' = scancode_queue
            /\ consumed' = Append(consumed, Head(scancode_queue))
            /\ pc' = "kb_take"
            /\ UNCHANGED cur
    /\ UNCHANGED <<tasks, task_queue, waker_cache, int_enabled, panic_msg>>
    /\ UNCHANGED <<sq_init, waker_cell, waker_state, diag, irq_frees>>
    /\ UNCHANGED <<next_event, polls, enq, born, wakes>>
    /\ UNCHANGED alloc_vars

poll_next_slow ==
    /\ Running
    /\ pc = "kb_pop2"
    /\ IF poll_next_recheck(scancode_queue)
       THEN /\ pc' = "sweep"
            /\ cur' = 0
            /\ UNCHANGED <<scancode_queue, consumed>>
       ELSE /\ scancode_queue' = Tail(scancode_queue)
            /\ consumed' = Append(consumed, Head(scancode_queue))
            /\ pc' = "kb_take"
            /\ UNCHANGED cur
    /\ UNCHANGED <<tasks, task_queue, waker_cache, int_enabled, panic_msg>>
    /\ UNCHANGED <<sq_init, waker_cell, waker_state, diag, irq_frees>>
    /\ UNCHANGED <<next_event, polls, enq, born, wakes>>
    /\ UNCHANGED alloc_vars

\* poll_next: WAKER.take() before Ready is returned from the slow path
poll_next_take_keeps ==
    /\ Running
    /\ pc = "kb_take"
    /\ waker_cell' = waker_cell
    /\ pc' = "kb_pop1"
    /\ UNCHANGED <<tasks, task_queue, waker_cache, cur, int_enabled, panic_msg>>
    /\ UNCHANGED <<sq_init, scancode_queue, waker_state, diag, irq_frees>>
    /\ UNCHANGED <<hist_vars, alloc_vars>>

poll_next_take ==
    /\ Running
    /\ pc = "kb_take"
    /\ waker_cell' = 0
    /\ pc' = "kb_pop1"
    /\ UNCHANGED <<tasks, task_queue, waker_cache, cur, int_enabled, panic_msg>>
    /\ UNCHANGED <<sq_init, scancode_queue, waker_state, diag, irq_frees>>
    /\ UNCHANGED <<hist_vars, alloc_vars>>

\* sleep_if_idle: interrupts::disable()
interrupts_disable_forgotten == int_enabled' = int_enabled

interrupts_disable == int_enabled' = FALSE

idle_disable ==
    /\ Running
    /\ pc = "idle_disable"
    /\ interrupts_disable
    /\ pc' = "idle_check"
    /\ UNCHANGED <<tasks, task_queue, waker_cache, cur, panic_msg>>
    /\ UNCHANGED <<kbd_vars, hist_vars, alloc_vars>>

\* sleep_if_idle: if self.task_queue.is_empty()
idle_check_always_halts ==
    /\ Running
    /\ pc = "idle_check"
    /\ pc' = "idle_hlt"
    /\ UNCHANGED <<tasks, task_queue, waker_cache, cur, int_enabled, panic_msg>>
    /\ UNCHANGED <<kbd_vars, hist_vars, alloc_vars>>

idle_check ==
    /\ Running
    /\ pc = "idle_check"
    /\ pc' = IF task_queue = <<>> THEN "idle_hlt" ELSE "idle_enable"
    /\ UNCHANGED <<tasks, task_queue, waker_cache, cur, int_enabled, panic_msg>>
    /\ UNCHANGED <<kbd_vars, hist_vars, alloc_vars>>

\* sleep_if_idle: enable_and_hlt(), sti and hlt as one step
idle_hlt ==
    /\ Running
    /\ pc = "idle_hlt"
    /\ int_enabled' = TRUE
    /\ pc' = "hlt"
    /\ UNCHANGED <<tasks, task_queue, waker_cache, cur, panic_msg>>
    /\ UNCHANGED <<kbd_vars, hist_vars, alloc_vars>>

\* sleep_if_idle: interrupts::enable(), then the next run_ready_tasks
idle_enable ==
    /\ Running
    /\ pc = "idle_enable"
    /\ int_enabled' = TRUE
    /\ pc' = "sweep"
    /\ UNCHANGED <<tasks, task_queue, waker_cache, cur, panic_msg>>
    /\ UNCHANGED <<kbd_vars, hist_vars, alloc_vars>>

\* an interrupt ends a hlt: the boot thread goes on after its handler
after_interrupt == IF pc = "hlt" /\ panic_msg' = "none" THEN "sweep" ELSE pc

\* Waker::wake consumes the clone that WAKER held: the TaskWaker is freed
\* there when waker_cache holds no other clone of it
wake_drops_last(id) == id \notin waker_cache

\* add_scancode, with WAKER.wake() (AtomicWaker::take, then Waker::wake)
add_scancode_force(scancode) ==
    /\ irq_frees' = IF sq_init /\ Len(scancode_queue) < ScancodeCap
                       /\ waker_state = "WAITING" /\ waker_cell # 0
                       /\ wake_drops_last(waker_cell)
                    THEN irq_frees + 1 ELSE irq_frees
    /\ IF ~sq_init
       THEN /\ diag' = [diag EXCEPT !.uninit = @ + 1]
            /\ UNCHANGED <<scancode_queue, waker_cell, waker_state, task_queue, enq, panic_msg>>
       ELSE IF Len(scancode_queue) >= ScancodeCap
       THEN /\ diag' = [diag EXCEPT !.full = @ + 1]
            /\ scancode_queue' = Append(Tail(scancode_queue), scancode)
            /\ UNCHANGED <<waker_cell, waker_state, task_queue, enq, panic_msg>>
       ELSE /\ scancode_queue' = Append(scancode_queue, scancode)
            /\ UNCHANGED diag
            /\ IF waker_state # "WAITING"
               THEN /\ waker_state' = "REGISTERING|WAKING"
                    /\ UNCHANGED <<waker_cell, task_queue, enq, panic_msg>>
               ELSE /\ waker_cell' = 0
                    /\ UNCHANGED waker_state
                    /\ IF waker_cell # 0
                       THEN wake_task(waker_cell)
                       ELSE UNCHANGED <<task_queue, enq, panic_msg>>

add_scancode_silent(scancode) ==
    /\ irq_frees' = IF sq_init /\ Len(scancode_queue) < ScancodeCap
                       /\ waker_state = "WAITING" /\ waker_cell # 0
                       /\ wake_drops_last(waker_cell)
                    THEN irq_frees + 1 ELSE irq_frees
    /\ IF ~sq_init
       THEN /\ diag' = [diag EXCEPT !.uninit = @ + 1]
            /\ UNCHANGED <<scancode_queue, waker_cell, waker_state, task_queue, enq, panic_msg>>
       ELSE IF Len(scancode_queue) >= ScancodeCap
       THEN UNCHANGED <<diag, scancode_queue, waker_cell, waker_state, task_queue, enq, panic_msg>>
       ELSE /\ scancode_queue' = Append(scancode_queue, scancode)
            /\ UNCHANGED diag
            /\ IF waker_state # "WAITING"
               THEN /\ waker_state' = "REGISTERING|WAKING"
                    /\ UNCHANGED <<waker_cell, task_queue, enq, panic_msg>>
               ELSE /\ waker_cell' = 0
                    /\ UNCHANGED waker_state
                    /\ IF waker_cell # 0
                       THEN wake_task(waker_cell)
                       ELSE UNCHANGED <<task_queue, enq, panic_msg>>

add_scancode_uninit_fatal(scancode) ==
    /\ irq_frees' = IF sq_init /\ Len(scancode_queue) < ScancodeCap
                       /\ waker_state = "WAITING" /\ waker_cell # 0
                       /\ wake_drops_last(waker_cell)
                    THEN irq_frees + 1 ELSE irq_frees
    /\ IF ~sq_init
       THEN /\ diag' = [diag EXCEPT !.uninit = @ + 1]
            /\ panic_msg' = "scancode queue uninitialized"
            /\ UNCHANGED <<scancode_queue, waker_cell, waker_state, task_queue, enq>>
       ELSE IF Len(scancode_queue) >= ScancodeCap
       THEN /\ diag' = [diag EXCEPT !.full = @ + 1]
            /\ UNCHANGED <<scancode_queue, waker_cell, waker_state, task_queue, enq, panic_msg>>
       ELSE /\ scancode_queue' = Append(scancode_queue, scancode)
            /\ UNCHANGED diag
            /\ IF waker_state # "WAITING"
               THEN /\ waker_state' = "REGISTERING|WAKING"
                    /\ UNCHANGED <<waker_cell, task_queue, enq, panic_msg>>
               ELSE /\ waker_cell' = 0
                    /\ UNCHANGED waker_state
                    /\ IF waker_cell # 0
                       THEN wake_task(waker_cell)
                       ELSE UNCHANGED <<task_queue, enq, panic_msg>>

add_scancode_keeps_cell(scancode) ==
    /\ irq_frees' = IF sq_init /\ Len(scancode_queue) < ScancodeCap
                       /\ waker_state = "WAITING" /\ waker_cell # 0
                       /\ wake_drops_last(waker_cell)
                    THEN irq_frees + 1 ELSE irq_frees
    /\ IF ~sq_init
       THEN /\ diag' = [diag EXCEPT !.uninit = @ + 1]
            /\ UNCHANGED <<scancode_queue, waker_cell, waker_state, task_queue, enq, panic_msg>>
       ELSE IF Len(scancode_queue) >= ScancodeCap
       THEN /\ diag' = [diag EXCEPT !.full = @ + 1]
            /\ UNCHANGED <<scancode_queue, waker_cell, waker_state, task_queue, enq, panic_msg>>
       ELSE /\ scancode_queue' = Append(scancode_queue, scancode)
            /\ UNCHANGED diag
            /\ IF waker_state # "WAITING"
               THEN /\ waker_state' = "REGISTERING|WAKING"
                    /\ UNCHANGED <<waker_cell, task_queue, enq, panic_msg>>
               ELSE /\ waker_cell' = waker_cell
                    /\ UNCHANGED waker_state
                    /\ IF waker_cell # 0
                       THEN wake_task(waker_cell)
                       ELSE UNCHANGED <<task_queue, enq, panic_msg>>

add_scancode(scancode) ==
    /\ irq_frees' = IF sq_init /\ Len(scancode_queue) < ScancodeCap
                       /\ waker_state = "WAITING" /\ waker_cell # 0
                       /\ wake_drops_last(waker_cell)
                    THEN irq_frees + 1 ELSE irq_frees
    /\ IF ~sq_init
       THEN /\ diag' = [diag EXCEPT !.uninit = @ + 1]
            /\ UNCHANGED <<scancode_queue, waker_cell, waker_state, task_queue, enq, panic_msg>>
       ELSE IF Len(scancode_queue) >= ScancodeCap
       THEN /\ diag' = [diag EXCEPT !.full = @ + 1]
            /\ UNCHANGED <<scancode_queue, waker_cell, waker_state, task_queue, enq, panic_msg>>
       ELSE /\ scancode_queue' = Append(scancode_queue, scancode)
            /\ UNCHANGED diag
            /\ IF waker_state # "WAITING"
               THEN /\ waker_state' = "REGISTERING|WAKING"
                    /\ UNCHANGED <<waker_cell, task_queue, enq, panic_msg>>
               ELSE /\ waker_cell' = 0
                    /\ UNCHANGED waker_state
                    /\ IF waker_cell # 0
                       THEN wake_task(waker_cell)
                       ELSE UNCHANGED <<task_queue, enq, panic_msg>>

\* keyboard_interrupt_handler: one scancode read from port 0x60
keyboard_interrupt_handler ==
    /\ Running
    /\ int_enabled
    /\ next_event <= MaxEvents
    /\ add_scancode(next_event)
    /\ next_event' = next_event + 1
    /\ pc' = after_interrupt
    /\ UNCHANGED <<tasks, waker_cache, cur, int_enabled, sq_init>>
    /\ UNCHANGED <<consumed, polls, born, wakes>>
    /\ UNCHANGED alloc_vars

\* timer_interrupt_handler: prints a dot
timer_interrupt_handler ==
    /\ Running
    /\ int_enabled
    /\ pc = "hlt"
    /\ pc' = "sweep"
    /\ UNCHANGED <<tasks, task_queue, waker_cache, cur, int_enabled, panic_msg>>
    /\ UNCHANGED <<kbd_vars, hist_vars, alloc_vars>>

\* the tasks whose future has handed a clone of its Waker to a party outside
\* the executor: every task but the keyboard task, once it has been polled
held == {id \in DOMAIN born : born[id].kind = "gen" /\ polls[id] > 0}

\* Wake for TaskWaker: a holder of a task's Waker invokes it from an
\* interrupt handler
wake_by_ref(id) ==
    /\ Running
    /\ int_enabled
    /\ id \in held
    /\ wakes < MaxWakes
    /\ wakes' = wakes + 1
    /\ wake_task(id)
    /\ pc' = after_interrupt
    /\ UNCHANGED <<tasks, waker_cache, cur, int_enabled>>
    /\ UNCHANGED <<kbd_vars, next_event, consumed, polls, born>>
    /\ UNCHANGED alloc_vars

TaskKinds == {"gen", "kb"}

\* the Pending results a task returns before it returns Ready
Pendings == {0, 1}

\* TaskId::new hands out increasing ids: a spawned id is the next fresh one,
\* or one that is already in the table
Spawn ==
    \E id \in TaskIds, kind \in TaskKinds, pend \in Pendings :
        /\ id <= Cardinality(DOMAIN tasks) + 1
        /\ kind = "kb" => pend = 0
        /\ spawn(id, kind, pend)

Wake == \E id \in TaskIds : wake_by_ref(id)

\* the steps of the boot thread inside Executor::run
ExecutorStep ==
    \/ run
    \/ sweep_end
    \/ sweep_stale
    \/ sweep_poll
    \/ sweep_poll_keyboard
    \/ poll_next_fast
    \/ register_begin
    \/ register_end
    \/ poll_next_slow
    \/ poll_next_take
    \/ idle_disable
    \/ idle_check
    \/ idle_hlt
    \/ idle_enable

Next ==
    \/ Spawn
    \/ ExecutorStep
    \/ keyboard_interrupt_handler
    \/ timer_interrupt_handler
    \/ Wake

Spec == Init /\ [][Next]_vars

\* the boot thread runs whenever it is not halted
SpecLive == Init /\ [][Next]_vars /\ WF_vars(ExecutorStep)

\* a boot that spawns up to TaskQueueCap + 1 tasks, none of them the
\* keyboard task, with a silent keyboard
SpawnMany ==
    \E id \in SpawnIds, pend \in Pendings :
        /\ id <= Cardinality(DOMAIN tasks) + 1
        /\ spawn(id, "gen", pend)

NextSpawn ==
    \/ SpawnMany
    \/ run
    \/ sweep_end
    \/ sweep_stale
    \/ sweep_poll
    \/ idle_disable
    \/ idle_check
    \/ idle_hlt
    \/ idle_enable
    \/ timer_interrupt_handler
    \/ Wake

SpecSpawn == InitSpawn /\ [][NextSpawn]_vars

(***************************************************************************)
(* Executor and keyboard claims                                            *)
(***************************************************************************)
Completed(id) == id \in DOMAIN born /\ id \notin DOMAIN tasks
KeyboardTasks == {id \in DOMAIN born : born[id].kind = "kb"}
\* the pops of id that found no task: pushes, less the entries still queued,
\* less the pops that led to a poll
StalePops(id) == enq[id] - Occurrences(task_queue, id) - polls[id]
\* the scancodes pushed after SCANCODE_QUEUE was initialized
Offered == next_event - 1 - diag.uninit
Min(a, b) == IF a <= b THEN a ELSE b

\* C2: no lost wakeup.  In every run in which the boot thread keeps taking
\* its steps, a scancode that is in the queue is eventually taken out of it,
\* and taken out only by poll_next (or the kernel has stopped in a panic);
\* the executor is never halted while a scancode is queued.
C2_NoLostWakeup ==
    /\ (scancode_queue # <<>>) ~> (scancode_queue = <<>> \/ panic_msg # "none")
    /\ [](pc = "hlt" => scancode_queue = <<>>)
    /\ [][\A e \in Range(scancode_queue) :
             e \notin Range(scancode_queue') => consumed' = Append(consumed, e)]_vars

\* the only task is the keyboard task; every scancode was accepted while a
\* Waker was registered, woke the task, was returned by a later poll, and
\* the executor is halted again
C2_Witness ==
    \E k \in KeyboardTasks :
        /\ DOMAIN born = {k}
        /\ pc = "hlt"
        /\ diag = [full |-> 0, uninit |-> 0]
        /\ enq[k] = next_event
        /\ polls[k] = enq[k]
        /\ Len(consumed) = next_event - 1
        /\ Len(consumed) >= 2

\* C3: the idle gate.  The halt is entered only from the emptiness check,
\* with the ready queue empty and interrupts disabled from the check to the
\* halt; a non-empty ready queue at the check leads to interrupts::enable and
\* the next sweep, never to the halt.
C3_IdleGate ==
    /\ [](pc \in {"idle_check", "idle_hlt", "idle_enable"} => ~int_enabled)
    /\ [](pc = "idle_hlt" => task_queue = <<>>)
    /\ [](pc = "hlt" => (task_queue = <<>> /\ int_enabled))
    /\ [](pc = "idle_enable" => task_queue # <<>>)
    /\ [][(pc' = "hlt" /\ pc # "hlt") => (pc = "idle_hlt" /\ task_queue = <<>>)]_vars
    /\ [][(pc = "idle_check" /\ pc' # pc)
            => pc' = (IF task_queue = <<>> THEN "idle_hlt" ELSE "idle_enable")]_vars
    /\ [][(pc = "idle_enable" /\ pc' # pc) => (pc' = "sweep" /\ int_enabled')]_vars

\* the executor is halted, behind a gate that found the ready queue empty,
\* after a task was woken and polled a second time
C3_Witness ==
    /\ pc = "hlt"
    /\ task_queue = <<>>
    /\ int_enabled
    /\ \E id \in TaskIds : enq[id] >= 2 /\ polls[id] >= 2

\* C7: a task whose first poll returns Ready is polled exactly once and is
\* then in neither the task table nor the wake-handle cache.
C7_ReadyTaskRemoved ==
    \A id \in DOMAIN born :
        (born[id].kind = "gen" /\ born[id].pend = 0) =>
            /\ polls[id] <= 1
            /\ polls[id] = 1 => (id \notin DOMAIN tasks /\ id \notin waker_cache)
            /\ (polls[id] = 0 /\ panic_msg = "none") => id \in DOMAIN tasks
            /\ (pc \in {"idle_disable", "idle_check", "idle_hlt", "idle_enable", "hlt"})
                   => polls[id] = 1

\* the sweep that polled such a task is over, and its Waker was invoked later
C7_Witness ==
    \E id \in DOMAIN born :
        /\ born[id].kind = "gen" /\ born[id].pend = 0
        /\ polls[id] = 1
        /\ enq[id] >= 2
        /\ pc = "idle_disable"

\* C8: popping an id that is not in the task table polls nothing, leaves the
\* task table and the wake-handle cache as they are, raises no error and
\* goes on with the next id; a completed task never returns to the task
\* table and is never polled again.
C8_StaleIdIgnored ==
    /\ [][(pc = "sweep" /\ task_queue # <<>> /\ Head(task_queue) \notin DOMAIN tasks
           /\ Len(task_queue') < Len(task_queue))
          => (/\ tasks' = tasks
              /\ waker_cache' = waker_cache
              /\ polls' = polls
              /\ panic_msg' = "none"
              /\ task_queue' = Tail(task_queue)
              /\ pc' = "sweep")]_vars
    /\ [][\A id \in TaskIds :
             Completed(id) => (id \notin DOMAIN tasks' /\ polls'[id] = polls[id])]_vars
    /\ [](\A id \in TaskIds : Completed(id) => id \notin waker_cache)

\* the Waker of a completed task was invoked, its id was popped and skipped,
\* and the sweep went on to its end
C8_Witness ==
    \E id \in TaskIds :
        /\ Completed(id)
        /\ StalePops(id) >= 1
        /\ id \notin Range(task_queue)
        /\ pc = "idle_disable"
        /\ panic_msg = "none"

\* C9: a task whose polls all returned Pending is still in the task table;
\* every poll of a task used up one entry that spawn or a Waker had pushed;
\* at the end of a sweep every spawned task has been polled; a task that
\* returns Pending once is removed only by its second poll, after a wake.
C9_PendingTaskWaits ==
    /\ \A id \in DOMAIN born :
          (born[id].kind = "gen" /\ polls[id] <= born[id].pend /\ panic_msg = "none")
              => id \in DOMAIN tasks
    /\ \A id \in TaskIds : polls[id] + Occurrences(task_queue, id) <= enq[id]
    /\ (pc = "idle_disable") => \A id \in DOMAIN born : polls[id] >= 1
    /\ \A id \in DOMAIN born :
          (born[id].kind = "gen" /\ Completed(id))
              => (polls[id] = born[id].pend + 1 /\ enq[id] >= born[id].pend + 1)

\* task A (Pending once) and task B (Ready at once): the first sweep is over,
\* B is gone, A is in the table and has not been woken
C9_WitnessFirstSweep ==
    \E a \in DOMAIN born : \E b \in DOMAIN born :
        /\ born[a].kind = "gen" /\ born[a].pend = 1
        /\ born[b].kind = "gen" /\ born[b].pend = 0
        /\ pc = "hlt"
        /\ wakes = 0
        /\ a \in DOMAIN tasks /\ polls[a] = 1
        /\ Completed(b)

\* C10: a push onto a full scancode queue leaves the queue as it is, prints
\* one warning, wakes nobody and is not fatal; the queue never holds more
\* than its capacity; with no scancode taken out yet, the queue holds the
\* first ScancodeCap scancodes pushed since its initialization, in order.
C10_FullQueueDropsNewest ==
    /\ [](Len(scancode_queue) <= ScancodeCap)
    /\ [][(next_event' = next_event + 1 /\ sq_init /\ Len(scancode_queue) = ScancodeCap)
          => (/\ scancode_queue' = scancode_queue
              /\ diag' = [diag EXCEPT !.full = @ + 1]
              /\ task_queue' = task_queue
              /\ waker_cell' = waker_cell
              /\ panic_msg' = "none")]_vars
    /\ [](consumed = <<>> =>
            scancode_queue = [i \in 1..Min(Offered, ScancodeCap) |-> diag.uninit + i])

\* ScancodeCap + 1 scancodes were pushed with no drain: one warning, and the
\* first ScancodeCap of them are queued
C10_Witness ==
    /\ consumed = <<>>
    /\ diag = [full |-> 1, uninit |-> 0]
    /\ Len(scancode_queue) = ScancodeCap
    /\ Offered = ScancodeCap + 1

\* a keyboard interrupt: every one of them calls add_scancode once
Push == next_event' = next_event + 1

\* C11 as stated: a push onto a full scancode queue drops the oldest pending
\* scancode and reports it, so the queue holds the most recent arrivals and
\* never more than its capacity.
C11_FullQueueDropsOldest ==
    [][(Push /\ sq_init /\ Len(scancode_queue) = ScancodeCap)
       => (/\ scancode_queue' = Append(Tail(scancode_queue), next_event)
           /\ diag'.full = diag.full + 1
           /\ Len(scancode_queue') <= ScancodeCap)]_vars

\* C11 amended: the scancode that is dropped is the arriving one, which is
\* newer than every pending scancode; the pending ones stay as they are;
\* every scancode pushed after the initialization is pending, returned or
\* counted as dropped in a warning; the queue never exceeds its capacity.
C11_FullQueueDropsArrival ==
    /\ [](Len(scancode_queue) <= ScancodeCap)
    /\ [](diag.full = Offered - Len(consumed) - Len(scancode_queue))
    /\ [][(Push /\ sq_init /\ Len(scancode_queue) = ScancodeCap)
          => (/\ next_event \notin Range(scancode_queue')
              /\ \A e \in Range(scancode_queue) : e < next_event
              /\ scancode_queue' = scancode_queue
              /\ diag'.full = diag.full + 1)]_vars

\* ScancodeCap + 1 scancodes were pushed before the consumer drained the
\* queue: the drain returned the first ScancodeCap of them, the last one is
\* gone and one warning was printed
C11_Witness ==
    /\ diag = [full |-> 1, uninit |-> 0]
    /\ next_event = ScancodeCap + 2
    /\ consumed = [i \in 1..ScancodeCap |-> i]
    /\ scancode_queue = <<>>

\* C12: under every interleaving of the interrupt's push with the steps of
\* poll_next, the scancodes returned followed by the scancodes pending are the
\* accepted scancodes in the order of their acceptance: a step changes that
\* sequence only by appending the scancode a push accepts, poll_next returns
\* the head of the queue and removes it, and no scancode is returned twice.
C12_ExactlyOnceInOrder ==
    /\ [][\/ consumed' \o scancode_queue' = consumed \o scancode_queue
          \/ /\ Push /\ sq_init /\ Len(scancode_queue) < ScancodeCap
             /\ consumed' \o scancode_queue' =
                   Append(consumed \o scancode_queue, next_event)]_vars
    /\ [][consumed' # consumed
          => (/\ scancode_queue # <<>>
              /\ consumed' = Append(consumed, Head(scancode_queue))
              /\ scancode_queue' = Tail(scancode_queue)
              /\ pc \in {"kb_pop1", "kb_pop2"})]_vars
    /\ [][(Push /\ sq_init /\ Len(scancode_queue) < ScancodeCap)
          => scancode_queue' = Append(scancode_queue, next_event)]_vars
    /\ [](\A i \in 1..Len(consumed) : \A j \in 1..Len(consumed) :
             i < j => consumed[i] < consumed[j])

\* poll_next has taken a scancode on its slow path, after a push came in
\* between its first pop and its second one; another scancode is pending
\* behind it and an earlier one was returned before
C12_Witness ==
    /\ pc = "kb_take"
    /\ Len(consumed) >= 2
    /\ scancode_queue # <<>>
    /\ diag.full = 0

\* C13: the interrupt path frees nothing and allocates nothing: the Waker
\* that add_scancode takes out of WAKER and consumes is never the last
\* reference to its TaskWaker, because the executor's cache holds a clone of
\* every registered Waker; an interrupt creates no Waker and removes no task.
C13_InterruptPathNoHeap ==
    /\ [](irq_frees = 0)
    /\ [](waker_cell # 0 => waker_cell \in waker_cache)
    /\ [][(Push \/ wakes' # wakes)
          => (waker_cache' = waker_cache /\ tasks' = tasks)]_vars

\* between two polls of the keyboard task the registered Waker is gone from
\* WAKER: an interrupt took it, consumed it and queued the task
C13_Witness ==
    \E k \in KeyboardTasks :
        /\ polls[k] >= 1
        /\ pc = "sweep" /\ cur = 0
        /\ waker_cell = 0
        /\ k \in Range(task_queue)
        /\ k \in waker_cache
        /\ panic_msg = "none"

WakeAttempt ==
    \/ wakes' # wakes
    \/ Push /\ sq_init /\ Len(scancode_queue) < ScancodeCap
          /\ waker_state = "WAITING" /\ waker_cell # 0
    \/ pc = "kb_registered" /\ pc' # pc /\ waker_state = "REGISTERING|WAKING"

\* a spawn of an id that is not in the task table
SpawnFresh == pc = "boot" /\ DOMAIN born' # DOMAIN born

\* C15: a wake or a spawn that finds the ready queue full is fatal and leaves
\* the queue as it is; every other wake or spawn appends its id to the queue
\* and is not fatal; an entry leaves the queue only when the sweep pops it
\* from the head.
C15_FullReadyQueueFatal ==
    /\ [](Len(task_queue) <= TaskQueueCap)
    /\ [][(WakeAttempt \/ SpawnFresh)
          => IF Len(task_queue) = TaskQueueCap
             THEN /\ panic_msg' \in {"task_queue full", "queue full"}
                  /\ task_queue' = task_queue
             ELSE /\ panic_msg' = "none"
                  /\ \E id \in Ids : task_queue' = Append(task_queue, id)]_vars
    /\ [][SpawnFresh
          => \A id \in DOMAIN born' \ DOMAIN born :
                \/ panic_msg' = "queue full"
                \/ task_queue' = Append(task_queue, id)]_vars
    /\ [][task_queue' # task_queue
          => \/ \E id \in Ids : task_queue' = Append(task_queue, id)
             \/ pc = "sweep" /\ task_queue' = Tail(task_queue)]_vars

\* the boot spawned one task more than the ready queue holds: the queue is
\* full of the ids spawned before, the last task is in the task table, its
\* id is in no queue entry and the kernel has stopped
C15_Witness ==
    /\ panic_msg = "queue full"
    /\ Len(task_queue) = TaskQueueCap
    /\ pc = "boot"
    /\ \E id \in DOMAIN tasks : id \notin Range(task_queue)

\* C16: a spawn of an id that is in the task table is fatal and enqueues
\* nothing; a spawn that is not fatal adds its id, and no other, to the task
\* table and one entry for it to the back of the ready queue; before run is
\* entered every id of the task table has exactly one entry in the queue.
C16_DuplicateSpawnFatal ==
    /\ [][(pc = "boot" /\ panic_msg' = "task with same ID already in tasks")
          => (/\ task_queue' = task_queue
              /\ DOMAIN tasks' = DOMAIN tasks
              /\ enq' = enq)]_vars
    /\ [][(pc = "boot" /\ pc' = "boot" /\ panic_msg' = "none"
           /\ <<tasks, task_queue, born>> # <<tasks', task_queue', born'>>)
          => \E id \in Ids \ DOMAIN tasks :
                /\ DOMAIN tasks' = DOMAIN tasks \cup {id}
                /\ \A x \in DOMAIN tasks : tasks'[x] = tasks[x]
                /\ task_queue' = Append(task_queue, id)]_vars
    /\ []((pc = "boot" /\ panic_msg = "none")
             => /\ Range(task_queue) = DOMAIN tasks
                /\ \A id \in DOMAIN tasks : Occurrences(task_queue, id) = 1)

\* two tasks were spawned, then the id of one of them was spawned again:
\* the kernel has stopped and the queue holds one entry for each task
C16_Witness ==
    /\ panic_msg = "task with same ID already in tasks"
    /\ pc = "boot"
    /\ Cardinality(DOMAIN tasks) = 2
    /\ Len(task_queue) = 2
    /\ \A id \in DOMAIN tasks : Occurrences(task_queue, id) = 1

\* the positions of the executor inside poll_next
InPollNext == {"kb_pop1", "kb_register", "kb_registered", "kb_pop2", "kb_take"}

\* C22: in poll_next's slow path the second queue check is reached only
\* through the registration, which wrote the polled task's handle into the
\* cell; at the second check the handle is in the cell unless a push has
\* already taken it and queued the task; poll_next returns Pending only from
\* a second check that found the queue empty, and leaves the cell as it is;
\* a second check that finds data takes the scancode and clears the cell
\* before Ready goes back to the caller.
C22_RegisterThenRecheck ==
    /\ [][(pc' = "kb_registered" /\ pc # "kb_registered")
          => (pc = "kb_register" /\ waker_cell' = cur /\ cur \in DOMAIN tasks)]_vars
    /\ [][(pc' = "kb_pop2" /\ pc # "kb_pop2") => pc = "kb_registered"]_vars
    /\ [](pc = "kb_pop2" /\ Running
          => (waker_cell = cur \/ cur \in Range(task_queue)))
    /\ [][(pc \in InPollNext /\ pc' = "sweep")
          => (/\ pc = "kb_pop2"
              /\ scancode_queue = <<>> /\ scancode_queue' = <<>>
              /\ waker_cell' = waker_cell
              /\ consumed' = consumed)]_vars
    /\ [][(pc = "kb_pop2" /\ pc' # pc /\ scancode_queue # <<>>)
          => (/\ pc' = "kb_take"
              /\ consumed' = Append(consumed, Head(scancode_queue))
              /\ scancode_queue' = Tail(scancode_queue)
              /\ waker_cell' = waker_cell)]_vars
    /\ [][(pc = "kb_take" /\ pc' # pc)
          => (pc' = "kb_pop1" /\ waker_cell' = 0)]_vars

\* the keyboard task returned Pending before, was polled again, and its
\* second check has just found a scancode while its handle is registered
C22_Witness ==
    /\ pc = "kb_take"
    /\ cur \in DOMAIN tasks
    /\ waker_cell = cur
    /\ polls[cur] >= 2
    /\ Len(consumed) >= 2
    /\ Running

\* a push that put its scancode into the queue
PushStored == Push /\ Len(scancode_queue') = Len(scancode_queue) + 1

\* C23: the cell holds one task id or nothing; a push that stores its
\* scancode while a handle is registered empties the cell and invokes the
\* handle once (one entry appended to the ready queue, or the fatal stop on
\* a full ready queue); a push that stores its scancode while the cell is
\* empty, and a push dropped on a full scancode queue, invoke nothing; the
\* keyboard task is queued by a wake only in a step that empties a cell that
\* held its handle, so one registration yields at most one entry.
C23_OneHandleOneWake ==
    /\ [](waker_cell \in {0} \cup TaskIds)
    /\ [][(PushStored /\ waker_state = "WAITING" /\ waker_cell # 0)
          => (/\ waker_cell' = 0
              /\ \/ /\ task_queue' = Append(task_queue, waker_cell)
                    /\ enq' = [enq EXCEPT ![waker_cell] = @ + 1]
                    /\ panic_msg' = panic_msg
                 \/ /\ Len(task_queue) = TaskQueueCap
                    /\ task_queue' = task_queue /\ enq' = enq
                    /\ panic_msg' = "task_queue full")]_vars
    /\ [][(PushStored /\ waker_cell = 0)
          => (task_queue' = task_queue /\ enq' = enq /\ waker_cell' = 0)]_vars
    /\ [][(Push /\ sq_init /\ Len(scancode_queue) = ScancodeCap)
          => (/\ task_queue' = task_queue /\ enq' = enq
              /\ waker_cell' = waker_cell /\ waker_state' = waker_state
              /\ scancode_queue' = scancode_queue)]_vars
    /\ [][\A k \in KeyboardTasks :
             (pc # "boot" /\ enq'[k] # enq[k])
             => (/\ enq'[k] = enq[k] + 1
                 /\ waker_cell = k /\ waker_cell' = 0)]_vars

\* one registration, then two stored pushes: the first took the handle and
\* queued the keyboard task, the second found the cell empty
C23_Witness ==
    /\ Len(scancode_queue) = 2
    /\ waker_cell = 0 /\ waker_state = "WAITING"
    /\ \E k \in KeyboardTasks :
          /\ k \in DOMAIN tasks
          /\ polls[k] = 1
          /\ enq[k] = 2
          /\ Occurrences(task_queue, k) = 1
    /\ Running

\* C24: the ready queue is first in, first out.  Every push, by spawn or by
\* a wake handle at any position of the sweep, appends its id behind all
\* entries already queued; the queue otherwise changes only by the sweep
\* taking its head; and the task that is polled is the one whose id was at
\* the head.
C24_ReadyQueueFifo ==
    /\ [][\A id \in DOMAIN enq :
             enq'[id] # enq[id]
             => (enq'[id] = enq[id] + 1 /\ task_queue' = Append(task_queue, id))]_vars
    /\ [][task_queue' # task_queue
          => \/ \E id \in DOMAIN enq :
                   /\ task_queue' = Append(task_queue, id)
                   /\ enq' = [enq EXCEPT ![id] = @ + 1]
             \/ /\ task_queue # <<>>
                /\ task_queue' = Tail(task_queue)
                /\ pc = "sweep"
                /\ enq' = enq]_vars
    /\ [][\A id \in DOMAIN polls :
             polls'[id] # polls[id]
             => (/\ polls'[id] = polls[id] + 1
                 /\ task_queue # <<>> /\ Head(task_queue) = id
                 /\ task_queue' = Tail(task_queue))]_vars

\* during the sweep a wake has queued task a, polled before, behind task b,
\* which was queued first and has not been polled yet
C24_Witness ==
    /\ pc = "sweep"
    /\ Len(task_queue) = 2
    /\ task_queue[1] # task_queue[2]
    /\ polls[task_queue[1]] = 0
    /\ polls[task_queue[2]] >= 1
    /\ enq[task_queue[2]] >= 2
    /\ wakes >= 1
    /\ Running

\* C25: at-least-once polling.  For a task in the task table every push of
\* its id, by spawn or by a wake handle, is either still in the ready queue
\* or has led to a poll of the task; the sweep polls the task whenever it
\* pops the id of a task in the table, and skips an id only when its task
\* has completed; and in every run in which the boot thread keeps taking its
\* steps, the entries in the ready queue are eventually all popped (or the
\* kernel has stopped in a panic, as on a ready-queue overflow).
C25_AtLeastOncePolling ==
    /\ (task_queue # <<>>) ~> (task_queue = <<>> \/ panic_msg # "none")
    /\ [](\A id \in DOMAIN tasks :
             enq[id] = Occurrences(task_queue, id) + polls[id])
    /\ [][(task_queue # <<>> /\ task_queue' = Tail(task_queue))
          => IF Head(task_queue) \in DOMAIN tasks
             THEN polls' = [polls EXCEPT ![Head(task_queue)] = @ + 1]
             ELSE polls' = polls /\ Completed(Head(task_queue))]_vars

\* a task in the table has been polled, was woken twice since, and both
\* entries are still in the ready queue
C25_Witness ==
    \E id \in DOMAIN tasks :
        /\ Occurrences(task_queue, id) >= 2
        /\ polls[id] >= 1
        /\ enq[id] = polls[id] + Occurrences(task_queue, id)
        /\ Running

\* the sweep is about to poll, for the first time, a keyboard task: the poll
\* that runs ScancodeStream::new
Constructs ==
    /\ pc = "sweep" /\ Running
    /\ task_queue # <<>>
    /\ Head(task_queue) \in DOMAIN tasks
    /\ tasks[Head(task_queue)].kind = "kb"
    /\ ~tasks[Head(task_queue)].started
    /\ polls' # polls

\* C26: the scancode queue is initialized once.  It never goes back to
\* uninitialized and is empty until it is initialized; it is initialized only
\* by the first construction of a ScancodeStream, never by a push from the
\* interrupt handler; a construction that finds it initialized is fatal and
\* leaves the queue and its contents as they are.
C26_QueueInitializedOnce ==
    /\ [](~sq_init => scancode_queue = <<>>)
    /\ [][sq_init => sq_init']_vars
    /\ [][sq_init' # sq_init => (Constructs /\ ~sq_init /\ scancode_queue' = <<>>)]_vars
    /\ [][Push => sq_init' = sq_init]_vars
    /\ [][Constructs
          => IF sq_init
             THEN /\ panic_msg' = "ScancodeStream::new should only be called once"
                  /\ sq_init'
                  /\ scancode_queue' = scancode_queue
             ELSE sq_init' /\ panic_msg' = panic_msg]_vars

\* a second keyboard task was polled while the queue of the first one held a
\* scancode: the kernel has stopped and the scancode is still queued
C26_Witness ==
    /\ panic_msg = "ScancodeStream::new should only be called once"
    /\ sq_init
    /\ scancode_queue # <<>>
    /\ Cardinality(KeyboardTasks) = 2

\* the two assertions of add_free_region hold for region n
NodeOk(n) == n.addr % NodeAlign = 0 /\ n.size >= NodeSize

\* C27: no assertion of add_free_region fails.  The allocator never stops in
\* a panic; every node of the free list starts at a node-aligned address and
\* is at least one node long; the leftover that a split hands to
\* add_free_region starts right behind the allocation and passes both
\* assertions; and so does the block that dealloc hands to it, whose size is
\* the adjusted size of its layout.
C27_AddFreeRegionAssertsHold ==
    /\ [](~alloc_panic)
    /\ [](\A i \in 1..Len(free_list) : NodeOk(free_list[i]))
    /\ [][(AllocStep /\ last'.ret # NULL /\ Len(free_list') = Len(free_list))
          => (/\ Head(free_list').addr = last'.ret + adjusted_size(last')
              /\ Head(free_list').addr % NodeAlign = 0
              /\ Head(free_list').size >= NodeSize)]_vars
    /\ [][DeallocStep
          => (/\ free_list' = <<[addr |-> last'.ret, size |-> adjusted_size(last')]>>
                              \o free_list
              /\ last'.ret % NodeAlign = 0
              /\ adjusted_size(last') >= NodeSize
              /\ adjusted_size(last') % NodeAlign = 0)]_vars

\* a request smaller than a node was served by a split and has been freed:
\* the freed block is one node long and the leftover of the split lies
\* right behind it in memory
C27_Witness ==
    /\ last.op = "dealloc"
    /\ last.size < NodeSize
    /\ ~alloc_panic
    /\ Len(free_list) >= 2
    /\ Head(free_list) = [addr |-> last.ret, size |-> NodeSize]
    /\ \E i \in 2..Len(free_list) : free_list[i].addr = last.ret + NodeSize

\* C28: the ids with a cached Waker are ids of tasks in the table.  A Waker
\* enters the cache only in the step that polls its task, popped from the
\* head of the ready queue and found in the table; a task that has been
\* polled has its Waker cached for as long as it is in the table, so no
\* second one is made for it; and a Waker leaves the cache only in the step
\* in which its task leaves the table, and always does so in that step.
C28_WakerCacheWithinTasks ==
    /\ [](waker_cache \subseteq DOMAIN tasks)
    /\ [](\A id \in DOMAIN tasks : polls[id] > 0 => id \in waker_cache)
    /\ [][\A id \in waker_cache' \ waker_cache :
             /\ pc = "sweep"
             /\ task_queue # <<>> /\ Head(task_queue) = id
             /\ id \in DOMAIN tasks
             /\ polls[id] = 0
             /\ polls' = [polls EXCEPT ![id] = 1]]_vars
    /\ [][\A id \in waker_cache \ waker_cache' :
             id \in DOMAIN tasks /\ id \notin DOMAIN tasks']_vars
    /\ [][\A id \in DOMAIN tasks \ DOMAIN tasks' : id \notin waker_cache']_vars

\* a keyboard task has been polled twice and its Waker is cached, while a
\* task that returned Pending once and then Ready is gone from the table and
\* from the cache
C28_Witness ==
    /\ \E k \in KeyboardTasks :
          k \in DOMAIN tasks /\ polls[k] >= 2 /\ k \in waker_cache
    /\ \E g \in DOMAIN born :
          /\ born[g].kind = "gen"
          /\ polls[g] = 2
          /\ Completed(g)
          /\ g \notin waker_cache
    /\ Running

\* the bytes the allocator accounts for: the free nodes and the adjusted
\* sizes of the live allocations
Accounted(list, S) == FreeBytes(list) + LiveBytes(S)

\* C29 as stated: after any sequence of calls the free nodes and the live
\* allocations add up to the heap size.
C29_NoByteLost ==
    heap_inited => Accounted(free_list, live) = HeapSize

\* C29 amended: the free nodes and the live allocations never add up to more
\* than the heap; dealloc and a failed alloc keep the sum; an alloc keeps it
\* when the aligned start is the start of the node that serves it, which is
\* always so for alignments up to the node alignment; for a larger alignment
\* the bytes between the start of the node and the aligned start leave the
\* sum for good, so that with every allocation freed the free list can cover
\* less than the heap.
C29_PaddingBytesLost ==
    /\ [](heap_inited => Accounted(free_list, live) <= HeapSize)
    /\ [][DeallocStep => Accounted(free_list', live') = Accounted(free_list, live)]_vars
    /\ [][(AllocStep /\ last'.ret = NULL)
          => (free_list' = free_list /\ live' = live)]_vars
    /\ [][(AllocStep /\ last'.ret # NULL)
          => (/\ Accounted(free_list', live')
                    = Accounted(free_list, live) - (last'.ret - free_list[scanned'].addr)
              /\ last'.ret - free_list[scanned'].addr
                    \in {0} \cup {p \in 1..(last'.align - 1) : p % NodeAlign = 0}
              /\ last'.align <= NodeAlign => last'.ret = free_list[scanned'].addr)]_vars

\* every allocation has been freed and the free list covers less than the
\* heap
C29_Witness ==
    /\ heap_inited
    /\ last.op = "dealloc"
    /\ live = {}
    /\ ~alloc_panic
    /\ FreeBytes(free_list) < HeapSize

================================================================================
